---- MODULE Spec2Model ----
(***************************************************************************)
(* The tinyfiledialogs binding layer (src/src/lib.rs).                     *)
(*                                                                         *)
(* Text is a sequence of byte values.  A Rust &str argument never holds an *)
(* invalid byte but may hold an interior NUL (0); a C string returned by   *)
(* the native library never holds an interior NUL but may hold bytes that  *)
(* are not UTF-8 (255).  A buffer built by CString::new is the text        *)
(* followed by the terminating NUL.  Every public function is modelled in  *)
(* two steps around its blocking foreign call: the step named after the    *)
(* function marshals the arguments and enters the native entry point (or   *)
(* panics, or returns early), the step named after the native entry point  *)
(* is its return, followed by the decoding of the result and the release   *)
(* of the buffers.                                                         *)
(***************************************************************************)
EXTENDS Integers, Sequences, FiniteSets, TLC

VARIABLES windows, pc, call, heap, nargs, invoked, nret, result

vars == <<windows, pc, call, heap, nargs, invoked, nret, result>>

---------------------------------------------------------------------------
(* Bounds of the model *)

MaxLen == 2

MaxAuxLen == 1

MaxItems == 2

MaxNativeLen == 3

MaxCode == 2

---------------------------------------------------------------------------
(* Program constants *)

Pipe == 124

Replacement == 65533

---------------------------------------------------------------------------
(* Input domains *)

SeqsUpTo(S, n) == UNION {[1..k -> S] : k \in 0..n}

ArgBytes == {0, 97}

Texts == SeqsUpTo(ArgBytes, MaxLen)

AuxTexts == SeqsUpTo(ArgBytes, MaxAuxLen)

TextLists == SeqsUpTo(AuxTexts, MaxItems)

NativeBytes == {97, Pipe, 255}

NativeStrings == SeqsUpTo(NativeBytes, MaxNativeLen)

NativeCodes == (-1)..MaxCode

RgbTriples == {<<0, 0, 0>>, <<1, 2, 3>>}

---------------------------------------------------------------------------
(* Option values, results and pointers *)

None == [kind |-> "none"]

Some(v) == [kind |-> "some", val |-> v]

Options(S) == {None} \cup {Some(v) : v \in S}

Pending == [kind |-> "pending"]

NullPtr == [null |-> TRUE]

CStrPtr(s) == [null |-> FALSE, bytes |-> s \o <<0>>]

NativePtrs == {NullPtr} \cup {CStrPtr(s) : s \in NativeStrings}

NoCall == [op |-> "none"]

NoNative == [fn |-> "none"]

---------------------------------------------------------------------------
(* Pure helpers *)

\* memchr(0, bytes) of CString::new finds a NUL.
HasNul(s) == \E i \in DOMAIN s : s[i] = 0

RECURSIVE CStrFromPtr(_)
\* CStr::from_ptr(p): the bytes up to, not including, the first NUL.
CStrFromPtr(b) ==
    IF b = <<>> \/ Head(b) = 0 THEN <<>> ELSE <<Head(b)>> \o CStrFromPtr(Tail(b))

CStringNewTruncating(s) == Some(CStrFromPtr(s) \o <<0>>)

\* CString::new(text): Err (None here) when the text holds an interior NUL,
\* else the text followed by the terminator.
CStringNew(s) == IF HasNul(s) THEN None ELSE Some(s \o <<0>>)

\* to_string_lossy: ASCII bytes decode to themselves, a byte that is not
\* UTF-8 (here 255, which starts no sequence) to U+FFFD.
ToStringLossy(b) == [i \in DOMAIN b |-> IF b[i] < 128 THEN b[i] ELSE Replacement]

RECURSIVE SplitFrom(_, _, _)
SplitFrom(s, sep, cur) ==
    IF s = <<>> THEN <<cur>>
    ELSE IF Head(s) = sep THEN <<cur>> \o SplitFrom(Tail(s), sep, <<>>)
    ELSE SplitFrom(Tail(s), sep, Append(cur, Head(s)))

SplitSkipEmpty(s, sep) == SelectSeq(SplitFrom(s, sep, <<>>), LAMBDA x : x # <<>>)

\* str::split(sep) collected: every segment, empty ones included.
Split(s, sep) == SplitFrom(s, sep, <<>>)

---------------------------------------------------------------------------
(* Enumerations *)

MessageBoxKinds == {"Ok", "OkCancel", "YesNo"}

Icons == {"Info", "Warning", "Error", "Question"}

BoxButtons == {"CancelNo", "OkYes"}

\* MessageBox::to_str: "ok", "okcancel", "yesno" as bytes.
MessageBox_to_str(kind) ==
    CASE kind = "Ok" -> <<111, 107>>
      [] kind = "OkCancel" -> <<111, 107, 99, 97, 110, 99, 101, 108>>
      [] kind = "YesNo" -> <<121, 101, 115, 110, 111>>

\* Icon::to_str: "info", "warning", "error", "question" as bytes.
Icon_to_str(icon) ==
    CASE icon = "Info" -> <<105, 110, 102, 111>>
      [] icon = "Warning" -> <<119, 97, 114, 110, 105, 110, 103>>
      [] icon = "Error" -> <<101, 114, 114, 111, 114>>
      [] icon = "Question" -> <<113, 117, 101, 115, 116, 105, 111, 110>>

\* BoxButton as i32.
BoxButton_as_i32(b) == IF b = "CancelNo" THEN 0 ELSE 1

unwrap_or(o, d) == IF o.kind = "some" THEN o.val ELSE d

---------------------------------------------------------------------------
(* Buffers.  The heap of a call is the sequence of the buffers it built;  *)
(* a text pointer is an index into it, 0 the null pointer.                 *)

Buffer(bytes) == [bytes |-> bytes, live |-> TRUE]

RECURSIVE MarshalFrom(_, _)
\* CString::new(..).unwrap() on each text in turn, after the buffers
\* already built: stops at the first text with an interior NUL.
MarshalFrom(texts, built) ==
    IF texts = <<>> THEN [ok |-> TRUE, heap |-> built]
    ELSE LET c == CStringNew(Head(texts))
         IN  IF c = None THEN [ok |-> FALSE, heap |-> built]
             ELSE MarshalFrom(Tail(texts), Append(built, Buffer(c.val)))

\* Dropping the buffers at the end of their scope.
Release(h) == [i \in DOMAIN h |-> [h[i] EXCEPT !.live = FALSE]]

\* What the memory of a dropped CString can hold afterwards: its old bytes,
\* its old bytes with the first one zeroed by the destructor, or whatever
\* the allocator wrote over it.
DroppedBytes(b) == {b, [b EXCEPT ![1] = 0], <<255, 0>>}

\* opt.map(|c| c.as_ptr()): the CString at index i is moved into the closure
\* and dropped when the closure returns; the pointer outlives it.
DropMoved(h, i, b) == [h EXCEPT ![i] = [bytes |-> b, live |-> FALSE]]

\* The text pointers among the arguments of a native call.
TextPtrs(a) ==
    CASE a.fn = "tinyfd_messageBox" -> {a.title, a.message, a.dialogType, a.iconType}
      [] a.fn = "tinyfd_inputBox" -> {a.title, a.message, a.default}
      [] a.fn \in {"tinyfd_saveFileDialog", "tinyfd_openFileDialog"} ->
            {a.title, a.path, a.des} \cup {a.patterns[i] : i \in DOMAIN a.patterns}
      [] a.fn = "tinyfd_selectFolderDialog" -> {a.title, a.path}
      [] a.fn = "tinyfd_arrayDialog" ->
            {a.title} \cup {a.columns[i] : i \in DOMAIN a.columns}
                      \cup {a.cells[i] : i \in DOMAIN a.cells}
      [] a.fn = "tinyfd_colorChooser" -> {a.title, a.defaultHex}
      [] OTHER -> {}

---------------------------------------------------------------------------
(* Decoding of native results *)

\* CStr::from_ptr(p).to_string_lossy().into_owned()
OwnedString(p) == ToStringLossy(CStrFromPtr(p.bytes))

ButtonOrCancel(res) == IF res = 1 THEN Some("OkYes") ELSE Some("CancelNo")

\* match res { 0 => CancelNo, 1 => OkYes, _ => unimplemented!() }; None
\* stands for the panic.
ButtonFromCode(res) ==
    CASE res = 0 -> Some("CancelNo")
      [] res = 1 -> Some("OkYes")
      [] OTHER -> None

NonEmptyToString(p) ==
    IF ~p.null /\ CStrFromPtr(p.bytes) # <<>> THEN Some(OwnedString(p)) ELSE None

\* if !p.is_null() { Some(owned string) } else { None }
PtrToString(p) == IF ~p.null THEN Some(OwnedString(p)) ELSE None

OpenFileAlwaysSplit(p, multi) ==
    IF ~p.null THEN Some(Split(OwnedString(p), Pipe)) ELSE None

OpenFileEmptyIsNone(p, multi) ==
    IF ~p.null /\ CStrFromPtr(p.bytes) # <<>>
    THEN Some(IF multi THEN Split(OwnedString(p), Pipe) ELSE <<OwnedString(p)>>)
    ELSE None

\* open_file_dialog_impl, after the native call.
OpenFileResult(p, multi) ==
    IF ~p.null
    THEN Some(IF multi THEN Split(OwnedString(p), Pipe) ELSE <<OwnedString(p)>>)
    ELSE None

\* .and_then(|v| v.into_iter().next())
FirstOf(o) ==
    IF o.kind = "some" /\ o.val # <<>> THEN Some(Head(o.val)) ELSE None

\* color_chooser_dialog, after the native call.
ColorResult(p, rgb) == IF ~p.null THEN Some(<<OwnedString(p), rgb>>) ELSE None

---------------------------------------------------------------------------
(* Steps *)

Init ==
    /\ windows \in BOOLEAN
    /\ pc = "idle"
    /\ call = NoCall
    /\ heap = <<>>
    /\ nargs = NoNative
    /\ invoked = 0
    /\ nret = Pending
    /\ result = Pending

\* A CString::new(..).unwrap() panicked: the buffers built so far are
\* dropped by the unwinding and nothing was handed to the native library.
Panic(c, built) ==
    /\ pc' = "fault"
    /\ call' = c
    /\ heap' = Release(built)
    /\ UNCHANGED <<windows, nargs, invoked, nret, result>>

\* The native entry point is entered with arguments a over the heap h.
Enter(c, h, a) ==
    /\ pc' = "native"
    /\ call' = c
    /\ heap' = h
    /\ nargs' = a
    /\ invoked' = invoked + 1
    /\ UNCHANGED <<windows, nret, result>>

\* The function returns r without having called the native library.
EarlyReturn(c, built, r) ==
    /\ pc' = "done"
    /\ call' = c
    /\ heap' = Release(built)
    /\ result' = r
    /\ UNCHANGED <<windows, nargs, invoked, nret>>

\* The native entry point returned n; the function returns r (None of
\* ButtonFromCode being the panic of message_box) and its buffers go.
Leave(n, r, panics) ==
    /\ pc' = IF panics THEN "fault" ELSE "done"
    /\ nret' = n
    /\ result' = IF panics THEN Pending ELSE r
    /\ heap' = Release(heap)
    /\ UNCHANGED <<windows, call, nargs, invoked>>

message_box ==
    /\ pc = "idle"
    /\ \E kind \in MessageBoxKinds, title \in Texts, message \in Texts,
          icon \in Options(Icons), default_button \in Options(BoxButtons) :
        LET c == [op |-> "message_box", kind |-> kind, title |-> title,
                  message |-> message, icon |-> icon,
                  default_button |-> default_button]
            m == MarshalFrom(<<title, message, MessageBox_to_str(kind),
                               Icon_to_str(unwrap_or(icon, "Info"))>>, <<>>)
        IN  IF ~m.ok THEN Panic(c, m.heap)
            ELSE Enter(c, m.heap,
                       [fn |-> "tinyfd_messageBox", title |-> 1, message |-> 2,
                        dialogType |-> 3, iconType |-> 4,
                        defaultButton |->
                            BoxButton_as_i32(unwrap_or(default_button, "OkYes"))])

tinyfd_messageBox ==
    /\ pc = "native"
    /\ nargs.fn = "tinyfd_messageBox"
    /\ \E res \in NativeCodes :
        LET b == ButtonFromCode(res)
        IN  Leave(res, b, b = None)

\* input_box_impl up to the native call.
input_box_impl(op, given, title, message, default) ==
    LET c == [op |-> op, title |-> title, message |-> message, default |-> given]
        m == MarshalFrom(<<title, message>>
                           \o (IF default.kind = "some" THEN <<default.val>> ELSE <<>>),
                         <<>>)
    IN  IF ~m.ok THEN Panic(c, m.heap)
        ELSE IF default.kind = "some"
             THEN \E b \in DroppedBytes(m.heap[3].bytes) :
                    Enter(c, DropMoved(m.heap, 3, b),
                          [fn |-> "tinyfd_inputBox", title |-> 1, message |-> 2,
                           default |-> 3])
             ELSE Enter(c, m.heap,
                        [fn |-> "tinyfd_inputBox", title |-> 1, message |-> 2,
                         default |-> 0])

\* default.or(Some(""))
OrEmpty(default) == IF default.kind = "some" THEN default ELSE Some(<<>>)

input_box ==
    /\ pc = "idle"
    /\ \E title \in Texts, message \in Texts, default \in Options(Texts) :
        input_box_impl("input_box", default, title, message, OrEmpty(default))

password_box ==
    /\ pc = "idle"
    /\ \E title \in Texts, message \in Texts :
        input_box_impl("password_box", None, title, message, None)

tinyfd_inputBox ==
    /\ pc = "native"
    /\ nargs.fn = "tinyfd_inputBox"
    /\ \E p \in NativePtrs : Leave(p, PtrToString(p), FALSE)

\* filter.map_or("", |f| f.1)
FilterDescription(filter) == IF filter.kind = "some" THEN filter.val[2] ELSE <<>>

\* filter.map_or(vec![], |f| f.0 ...)
FilterPatterns(filter) == IF filter.kind = "some" THEN filter.val[1] ELSE <<>>

Filters == {<<pats, des>> : pats \in TextLists, des \in AuxTexts}

\* The pointers to the buffers built at heap indices from+1 .. from+n.
PtrsAfter(from, n) == [i \in 1..n |-> from + i]

\* save_file_dialog_impl up to the native call.
save_file_dialog_impl(op, title, path, filter) ==
    LET c == [op |-> op, title |-> title, path |-> path, filter |-> filter]
        pats == FilterPatterns(filter)
        m == MarshalFrom(<<title, path, FilterDescription(filter)>> \o pats, <<>>)
    IN  IF ~m.ok THEN Panic(c, m.heap)
        ELSE Enter(c, m.heap,
                   [fn |-> "tinyfd_saveFileDialog", title |-> 1, path |-> 2,
                    numPatterns |-> Len(pats), patterns |-> PtrsAfter(3, Len(pats)),
                    des |-> 3])

save_file_dialog_with_filter ==
    /\ pc = "idle"
    /\ \E title \in Texts, path \in AuxTexts, f \in Filters :
        save_file_dialog_impl("save_file_dialog_with_filter", title, path, Some(f))

save_file_dialog ==
    /\ pc = "idle"
    /\ \E title \in Texts, path \in AuxTexts :
        save_file_dialog_impl("save_file_dialog", title, path, None)

tinyfd_saveFileDialog ==
    /\ pc = "native"
    /\ nargs.fn = "tinyfd_saveFileDialog"
    /\ \E p \in NativePtrs : Leave(p, PtrToString(p), FALSE)

\* open_file_dialog_impl up to the native call.
open_file_dialog_impl(op, title, path, filter, multi) ==
    LET c == [op |-> op, title |-> title, path |-> path, filter |-> filter]
        pats == FilterPatterns(filter)
        m == MarshalFrom(<<title, path, FilterDescription(filter)>> \o pats, <<>>)
    IN  IF ~m.ok THEN Panic(c, m.heap)
        ELSE Enter(c, m.heap,
                   [fn |-> "tinyfd_openFileDialog", title |-> 1, path |-> 2,
                    numPatterns |-> Len(pats), patterns |-> PtrsAfter(3, Len(pats)),
                    des |-> 3, multi |-> IF multi THEN 1 ELSE 0])

open_file_dialog ==
    /\ pc = "idle"
    /\ \E title \in Texts, path \in AuxTexts, filter \in Options(Filters) :
        open_file_dialog_impl("open_file_dialog", title, path, filter, FALSE)

open_file_dialog_multi ==
    /\ pc = "idle"
    /\ \E title \in Texts, path \in AuxTexts, filter \in Options(Filters) :
        open_file_dialog_impl("open_file_dialog_multi", title, path, filter, TRUE)

tinyfd_openFileDialog ==
    /\ pc = "native"
    /\ nargs.fn = "tinyfd_openFileDialog"
    /\ \E p \in NativePtrs :
        LET v == OpenFileResult(p, nargs.multi = 1)
        IN  Leave(p, IF call.op = "open_file_dialog" THEN FirstOf(v) ELSE v, FALSE)

select_folder_dialog ==
    /\ pc = "idle"
    /\ \E title \in Texts, path \in AuxTexts :
        LET c == [op |-> "select_folder_dialog", title |-> title, path |-> path]
            m == MarshalFrom(<<title, path>>, <<>>)
        IN  IF ~m.ok THEN Panic(c, m.heap)
            ELSE Enter(c, m.heap,
                       [fn |-> "tinyfd_selectFolderDialog", title |-> 1, path |-> 2])

tinyfd_selectFolderDialog ==
    /\ pc = "native"
    /\ nargs.fn = "tinyfd_selectFolderDialog"
    /\ \E p \in NativePtrs : Leave(p, PtrToString(p), FALSE)

UnimplementedOffWindows(w) == ~w

\* Which list_dialog_impl the build holds: the cfg(windows) one is
\* unimplemented!().
ListDialogUnimplemented(w) == w

\* cells.map_or(vec![], ..)
CellList(cells) == IF cells.kind = "some" THEN cells.val ELSE <<>>

list_dialog ==
    /\ pc = "idle"
    /\ \E title \in Texts, columns \in TextLists, cells \in Options(TextLists) :
        LET c == [op |-> "list_dialog", title |-> title, columns |-> columns,
                  cells |-> cells]
            t == MarshalFrom(<<title>>, <<>>)
            m == MarshalFrom(columns \o CellList(cells), t.heap)
            nc == Len(columns)
            ne == Len(CellList(cells))
        IN  IF ListDialogUnimplemented(windows) THEN Panic(c, <<>>)
            ELSE IF ~t.ok THEN Panic(c, t.heap)
            ELSE IF columns = <<>> THEN EarlyReturn(c, t.heap, None)
            ELSE IF ~m.ok THEN Panic(c, m.heap)
            ELSE Enter(c, m.heap,
                       [fn |-> "tinyfd_arrayDialog", title |-> 1, numCols |-> nc,
                        columns |-> PtrsAfter(1, nc), numRows |-> ne \div nc,
                        cells |-> PtrsAfter(1 + nc, ne)])

tinyfd_arrayDialog ==
    /\ pc = "native"
    /\ nargs.fn = "tinyfd_arrayDialog"
    /\ \E p \in NativePtrs : Leave(p, PtrToString(p), FALSE)

ColorDefaults ==
    {[kind |-> "Hex", val |-> h] : h \in Texts}
        \cup {[kind |-> "RGB", val |-> t] : t \in RgbTriples}

color_chooser_dialog ==
    /\ pc = "idle"
    /\ \E title \in Texts, default \in ColorDefaults :
        LET c == [op |-> "color_chooser_dialog", title |-> title, default |-> default]
            rubbish == <<0, 0, 0>>
            m == MarshalFrom(<<title>>
                               \o (IF default.kind = "Hex" THEN <<default.val>> ELSE <<>>),
                             <<>>)
        IN  IF ~m.ok THEN Panic(c, m.heap)
            ELSE IF default.kind = "Hex"
                 THEN \E b \in DroppedBytes(m.heap[2].bytes) :
                        Enter(c, DropMoved(m.heap, 2, b),
                              [fn |-> "tinyfd_colorChooser", title |-> 1,
                               defaultHex |-> 2, defaultRgb |-> rubbish])
                 ELSE Enter(c, m.heap,
                            [fn |-> "tinyfd_colorChooser", title |-> 1,
                             defaultHex |-> 0, defaultRgb |-> default.val])

tinyfd_colorChooser ==
    /\ pc = "native"
    /\ nargs.fn = "tinyfd_colorChooser"
    /\ \E p \in NativePtrs, rgb \in RgbTriples : Leave(p, ColorResult(p, rgb), FALSE)

Next ==
    \/ message_box
    \/ tinyfd_messageBox
    \/ input_box
    \/ password_box
    \/ tinyfd_inputBox
    \/ save_file_dialog_with_filter
    \/ save_file_dialog
    \/ tinyfd_saveFileDialog
    \/ open_file_dialog
    \/ open_file_dialog_multi
    \/ tinyfd_openFileDialog
    \/ select_folder_dialog
    \/ tinyfd_selectFolderDialog
    \/ list_dialog
    \/ tinyfd_arrayDialog
    \/ color_chooser_dialog
    \/ tinyfd_colorChooser

Spec == Init /\ [][Next]_vars

---------------------------------------------------------------------------
(* Vocabulary of the properties *)

ContainsNulByte(t) == 0 \in {t[i] : i \in DOMAIN t}

ContainsPipe(t) == Pipe \in {t[i] : i \in DOMAIN t}

RECURSIVE JoinWith(_, _)
JoinWith(segs, sep) ==
    IF segs = <<>> THEN <<>>
    ELSE IF Len(segs) = 1 THEN segs[1]
    ELSE segs[1] \o <<sep>> \o JoinWith(Tail(segs), sep)

\* The text the native side reads through text pointer p.
NativeReads(p) == CStrFromPtr(heap[p].bytes)

Returned(op) == pc = "done" /\ call.op = op /\ invoked = 1

OptionalOps ==
    {"input_box", "password_box", "save_file_dialog", "save_file_dialog_with_filter",
     "open_file_dialog", "open_file_dialog_multi", "select_folder_dialog",
     "list_dialog", "color_chooser_dialog"}

OpsWithMessage == {"message_box", "input_box", "password_box"}

---------------------------------------------------------------------------
(* C1 *)

\* C1 as stated: for every non-null native result string, open_file_dialog
\* returns the first element of the list open_file_dialog_multi returns for
\* that string.
C1_SingleIsFirstOfMulti ==
    (Returned("open_file_dialog") /\ ~nret.null)
        => result = FirstOf(OpenFileResult(nret, TRUE))

\* C1 amended: open_file_dialog returns the whole decoded native string,
\* unsplit; that is the first element of the multi list whenever the native
\* string holds no '|', and differs from it whenever it holds one.
C1_SingleIsWholeString ==
    (Returned("open_file_dialog") /\ ~nret.null)
        => /\ result = Some(OwnedString(nret))
           /\ ContainsPipe(nret.bytes) <=>
                 result # FirstOf(OpenFileResult(nret, TRUE))

C1_Witness ==
    /\ Returned("open_file_dialog")
    /\ nret = CStrPtr(<<97, Pipe, 97>>)
    /\ result = Some(<<97, Pipe, 97>>)

---------------------------------------------------------------------------
(* C2 *)

\* C2 as stated: open_file_dialog_multi is absent when the native call
\* returns null or a pointer to an empty string, and never returns a present
\* list that is empty or holds only the empty string.
C2_EmptyNativeIsAbsent ==
    Returned("open_file_dialog_multi")
        => /\ (nret.null \/ CStrFromPtr(nret.bytes) = <<>>) => result = None
           /\ result.kind = "some" => result.val \notin {<<>>, << <<>> >>}

\* C2 amended: open_file_dialog_multi is absent exactly when the native call
\* returns null; a pointer to an empty string yields the present list whose
\* only element is the empty string; a present list is never empty.
C2_NullIsAbsentEmptyIsPresent ==
    Returned("open_file_dialog_multi")
        => /\ nret.null <=> result = None
           /\ (~nret.null /\ CStrFromPtr(nret.bytes) = <<>>)
                 => result = Some(<< <<>> >>)
           /\ result.kind = "some" => result.val # <<>>

C2_Witness ==
    /\ Returned("open_file_dialog_multi")
    /\ nret = CStrPtr(<<>>)
    /\ result = Some(<< <<>> >>)

---------------------------------------------------------------------------
(* C3 *)

\* C3 as stated: on every platform list_dialog with an empty column list and
\* NUL-free title and cells returns absent without a native call.
C3_EmptyColumnsAbsentEverywhere ==
    (/\ pc # "idle" /\ call.op = "list_dialog" /\ call.columns = <<>>
     /\ ~ContainsNulByte(call.title)
     /\ \A i \in DOMAIN CellList(call.cells) : ~ContainsNulByte(CellList(call.cells)[i]))
        => pc = "done" /\ result = None /\ invoked = 0

\* C3 amended: off Windows list_dialog with an empty column list and a
\* NUL-free title returns absent without a native call, whatever the cells;
\* on Windows it ends in the unimplemented fault, also without a native call.
C3_EmptyColumnsAbsentOffWindows ==
    (/\ pc # "idle" /\ call.op = "list_dialog" /\ call.columns = <<>>
     /\ ~ContainsNulByte(call.title))
        => /\ invoked = 0 /\ nargs = NoNative
           /\ ~windows => (pc = "done" /\ result = None)
           /\ windows => (pc = "fault" /\ result = Pending)

C3_Witness ==
    /\ ~windows /\ pc = "done" /\ call.op = "list_dialog"
    /\ call.columns = <<>> /\ call.title = <<97>> /\ call.cells = Some(<< <<97>> >>)
    /\ result = None /\ invoked = 0

---------------------------------------------------------------------------
(* C4 *)

\* C4: in every public operation a title or message with an embedded NUL
\* ends the call in a fault, with no native entry point invoked before it.
C4_NulFailsBeforeNative ==
    (/\ pc # "idle"
     /\ \/ ContainsNulByte(call.title)
        \/ call.op \in OpsWithMessage /\ ContainsNulByte(call.message))
        => pc = "fault" /\ invoked = 0 /\ nargs = NoNative /\ result = Pending

C4_Witness ==
    /\ pc = "fault" /\ call.op = "input_box"
    /\ call.title = <<97>> /\ call.message = <<97, 0>>
    /\ invoked = 0

---------------------------------------------------------------------------
(* C5 *)

\* C5: for a non-null native result open_file_dialog_multi returns a present
\* list of '|'-free elements which, joined by '|', give back the decoded
\* native string (so they are its segments, in order); without a '|' the
\* list is the whole string alone.
C5_MultiSplitsOnPipe ==
    (Returned("open_file_dialog_multi") /\ ~nret.null)
        => /\ result.kind = "some"
           /\ result.val # <<>>
           /\ \A i \in DOMAIN result.val : ~ContainsPipe(result.val[i])
           /\ JoinWith(result.val, Pipe) = OwnedString(nret)
           /\ ~ContainsPipe(nret.bytes) => result.val = <<OwnedString(nret)>>

C5_Witness ==
    /\ Returned("open_file_dialog_multi")
    /\ nret = CStrPtr(<<97, Pipe, Pipe>>)
    /\ result = Some(<< <<97>>, <<>>, <<>> >>)

---------------------------------------------------------------------------
(* C6 *)

\* C6: an optional-returning operation that invoked its native entry point
\* returns absent exactly when the native call returned null, and a present
\* value otherwise.
C6_AbsentIffNull ==
    (pc = "done" /\ invoked = 1 /\ call.op \in OptionalOps)
        => /\ nret.null <=> result = None
           /\ ~nret.null <=> result.kind = "some"

C6_Witness ==
    /\ Returned("input_box")
    /\ nret = CStrPtr(<<>>)
    /\ result = Some(<<>>)

---------------------------------------------------------------------------
(* C7 *)

\* C7: message_box returns CancelNo for native code 0, OkYes for code 1, and
\* for any other code faults without a BoxButton.
C7_ButtonFromNativeCode ==
    (call.op = "message_box" /\ pc \in {"done", "fault"} /\ invoked = 1)
        => /\ nret = 0 => (pc = "done" /\ result = Some("CancelNo"))
           /\ nret = 1 => (pc = "done" /\ result = Some("OkYes"))
           /\ nret \notin {0, 1} => (pc = "fault" /\ result = Pending)

C7_Witness ==
    /\ call.op = "message_box" /\ pc = "fault" /\ invoked = 1 /\ nret = 2
    /\ result = Pending

---------------------------------------------------------------------------
(* C8 *)

\* C8: during the native input-box call the default-text argument reads as
\* the empty text for input_box without a default, as the supplied text for
\* input_box with one, and is the null pointer for password_box.
C8_DefaultTextArgument ==
    (pc = "native" /\ nargs.fn = "tinyfd_inputBox")
        => /\ (call.op = "input_box" /\ call.default = None)
                 => (nargs.default # 0 /\ NativeReads(nargs.default) = <<>>)
           /\ (call.op = "input_box" /\ call.default # None)
                 => (nargs.default # 0 /\ NativeReads(nargs.default) = call.default.val)
           /\ call.op = "password_box" => nargs.default = 0

---------------------------------------------------------------------------
(* C9 *)

\* C9: during the native colour-chooser call a Hex default is passed as that
\* hex text with an all-zero RGB slot, an RGB default as a null hex pointer
\* with the caller's three bytes in the RGB slot.
C9_ColorDefaultArguments ==
    (pc = "native" /\ nargs.fn = "tinyfd_colorChooser")
        => /\ call.default.kind = "Hex"
                 => /\ nargs.defaultHex # 0
                    /\ NativeReads(nargs.defaultHex) = call.default.val
                    /\ nargs.defaultRgb = <<0, 0, 0>>
           /\ call.default.kind = "RGB"
                 => (nargs.defaultHex = 0 /\ nargs.defaultRgb = call.default.val)

---------------------------------------------------------------------------
(* C10 *)

\* C10: while a native call is in progress every non-null text pointer among
\* its arguments refers to a NUL-terminated buffer that is still allocated.
C10_BuffersLiveDuringCall ==
    pc = "native"
        => \A p \in TextPtrs(nargs) \ {0} :
              /\ p \in DOMAIN heap
              /\ heap[p].live
              /\ heap[p].bytes[Len(heap[p].bytes)] = 0

====
